---- MODULE Spec2Model ----
(***************************************************************************)
(* cp2112_demo.c: a single-threaded program that opens and configures a    *)
(* CP2112 HID-to-SMBus bridge, runs a five-transaction startup against an  *)
(* LVDC4816 slave and then polls eight registers forever, printing each    *)
(* sample and appending it to outputA.csv.                                 *)
(*                                                                         *)
(* Representation.  A float that holds a multiple of 1/32 is modelled by   *)
(* the integer number of 1/32 units (every float the program computes is   *)
(* an INT16 divided by 32.0f, minus 40.0f for temperatures, or the         *)
(* constant 600, all exact in binary32).  buffer is modelled on indices    *)
(* 0..2, the only bytes the program touches.  outputA.csv is assumed to    *)
(* open (the log sink is an external collaborator).  The statements after  *)
(* while(1) are unreachable and have no action.                            *)
(***************************************************************************)
EXTENDS Integers, Sequences, FiniteSets, TLC

\* ---------------------------------------------------------------- bounds
\* Completed polling cycles explored step by step when the slave answers.
MaxCycles == 2
\* The same when the slave is absent (LongRunSpec).
MaxLongCycles == 4
\* Summarised stretches of polling cycles (RepeatCycles) per run.
MaxJumps == 2
\* Largest integer amp value handed to the setpoint encoder (CodecSpec).
MaxAmps == 2047

\* ------------------------------------------------------ program constants
REG_MFRVERSION == 155
REG_HWOCP == 234
REG_WRITEPROTECT == 16
REG_TEMPERATURE1 == 141
REG_TEMPERATURE2 == 142
REG_HV == 136
REG_LV == 139
REG_I2 == 140
REG_I1 == 144
REG_I1CNT == 205
REG_STATUS == 121
\* HWOCP_A = 600
OCP_SETPOINT_A == 600
\* regLength of every register read
READ_LENGTH == 2
\* the C int of first_timeA is 32 bits wide
IntMax == 2147483647
IntMin == -IntMax - 1

Byte == 0..255

\* ------------------------------------------------------- integer helpers
\* Conversion of an int to INT16 (the value modulo 2^16, as a signed number).
ToINT16(x) == LET m == x % 65536 IN IF m >= 32768 THEN m - 65536 ELSE m

\* x & 0xFFFF on an int
Mask16(x) == x % 65536

\* (buffer[1] << 8) | buffer[0]
Assemble(buf) == buf[1] * 256 + buf[0]

\* A decode that keeps the assembled value unsigned.
RawOfUnsigned(buf) == Mask16(Assemble(buf))

\* The two statements that follow every read:
\*   X_raw = (buffer[1] << 8) | buffer[0];  X_raw = X_raw & 0xFFFF;
\* X_raw is an INT16, so each assignment converts to INT16.
RawOf(buf) == ToINT16(Mask16(ToINT16(Assemble(buf))))

\* X = X_raw / 32.0f, in 1/32 units
Div32(raw) == raw

\* X = X_raw / 32.0f - 40.0f, in 1/32 units
TempOf(raw) == raw - 40 * 32

\* first_timeA ++ on a 32-bit int (two's-complement wrap-around)
Inc32(x) == IF x = IntMax THEN IntMin ELSE x + 1

\* x + k on a 32-bit int for 0 <= k <= IntMax, without leaving 32 bits
Add32(x, k) ==
    IF x <= 0 \/ x <= IntMax - k THEN x + k
    ELSE (x - IntMax - 1) + (k - IntMax - 1)

\* (UINT8) of a float holding the integer p >= 0.  Out of the range of UINT8
\* the conversion is undefined: a run-time conversion through a wider
\* integer keeps the low byte, a compile-time folded one saturates.
FloatToUINT8(p) == IF p <= 255 THEN {p} ELSE {p % 256, 255}

\* (UINT16) of a float holding the integer p >= 0, likewise.
FloatToUINT16(p) == IF p <= 65535 THEN {p} ELSE {p % 65536, 65535}

\* A setpoint payload with the two value bytes in the other order.
EncodeHWOCPSwapped(a32) ==
    { [i \in 0..2 |-> CASE i = 0 -> 234
                        [] i = 1 -> (w \div 256) % 256
                        [] i = 2 -> lo % 256] :
        lo \in FloatToUINT8(a32), w \in FloatToUINT16(a32) }

\* buffer[0..2] of the setpoint write for HWOCP_A = a32 / 32:
\*   buffer[0] = 0xEA;
\*   buffer[1] = ((UINT8)(HWOCP_A*32)&0xff);
\*   buffer[2] = (UINT8)(((UINT16)(HWOCP_A*32)>>8)&0xff);
EncodeHWOCP(a32) ==
    { [i \in 0..2 |-> CASE i = 0 -> REG_HWOCP
                        [] i = 1 -> lo % 256
                        [] i = 2 -> (w \div 256) % 256] :
        lo \in FloatToUINT8(a32), w \in FloatToUINT16(a32) }

\* ------------------------------------------------------------ formatting
\* printf("%2.2f") of v32/32 as a signed number of hundredths.  A value
\* exactly half way between two hundredths is rounded as the C library
\* chooses (to even, or away from zero): both neighbours are outcomes.
\* No value on the 1/32 grid rounds to a negative zero.
Fmt2(v32) ==
    LET n == 25 * v32
        q == n \div 8
        r == n % 8
    IN  IF r < 4 THEN {q} ELSE IF r > 4 THEN {q + 1} ELSE {q, q + 1}

RECURSIVE HexDigits(_)
\* the hexadecimal digits of n >= 0, most significant first, no leading zero
HexDigits(n) == IF n < 16 THEN <<n>> ELSE Append(HexDigits(n \div 16), n % 16)

\* printf("%x") of an INT16 argument: promoted to int, printed as the
\* unsigned 32-bit value, so a negative one prints as ffffXXXX.
FmtHex(v) == IF v >= 0 THEN HexDigits(v) ELSE <<15, 15, 15, 15>> \o HexDigits(v + 65536)

\* printf("%d") of an INT16 argument
FmtDec(v) == v

\* ------------------------------------------------------------------ state
VARIABLES
    pc,              \* the statement main is about to execute
    exitCode,        \* <<v>> once main has returned v, <<>> while it runs
    handle,          \* m_hidSmbus: "unopened", "open" or "closed"
    slave,           \* the LVDC4816 on the bus: "present" or "absent"
    buffer,          \* buffer[0..2]
    MFRversion_raw, HWOCP_raw, HWOCP_A,
    temperature1_raw, temperature1_C,
    temperature2_raw, temperature2_C,
    HVvoltage_raw, HVvoltage_V,
    LVvoltage_raw, LVvoltage_V,
    I2_current_raw, I2_current_A,
    I1_current_raw, I1_current_A,
    I1_CNT, DUT_Status,
    first_timeA,
    setupLog,        \* history: the results of SMBus_Open and SMBus_Configure
    startupLog,      \* history: the SMBus transactions issued before the loop
    cycleLog,        \* history: the reads issued in the current polling cycle
    cycles,          \* history: polling cycles completed step by step
    jumps,           \* history: summarised stretches of cycles
    csvLines,        \* what this run appended to outputA.csv: kinds of line
    csvAppend,       \* the text appended by the step just taken
    stderrRecord,    \* the record line printed by the step just taken
    hpc, hAmps, hBytes, hBuf, hRaw, hA32  \* the conversion harness (CodecSpec)

vT1 == <<temperature1_raw, temperature1_C>>
vT2 == <<temperature2_raw, temperature2_C>>
vHV == <<HVvoltage_raw, HVvoltage_V>>
vLV == <<LVvoltage_raw, LVvoltage_V>>
vI2 == <<I2_current_raw, I2_current_A>>
vI1 == <<I1_current_raw, I1_current_A>>
vCS == <<I1_CNT, DUT_Status>>
vStartup == <<MFRversion_raw, HWOCP_raw, HWOCP_A>>
vSamples == <<vT1, vT2, vHV, vLV, vI2, vI1, vCS>>
vDevice == <<exitCode, handle, slave, setupLog>>
vFile == <<first_timeA, csvLines, cycles, jumps>>
vPorts == <<csvAppend, stderrRecord>>
vHarness == <<hpc, hAmps, hBytes, hBuf, hRaw, hA32>>
vars == <<pc, buffer, vStartup, vSamples, vDevice, vFile,
          startupLog, cycleLog, vPorts, vHarness>>

\* --------------------------------------------------------- the environment
\* Values the bytes of the uninitialised buffer may hold.
GarbageBytes == {0, 165}

\* Register contents the slave may return (16-bit, sent low byte first).
DeviceValues(reg) ==
    CASE reg = REG_MFRVERSION   -> {258}
      [] reg = REG_HWOCP        -> {19200}
      [] reg = REG_TEMPERATURE1 -> {1280}
      [] reg = REG_TEMPERATURE2 -> {1280}
      [] reg = REG_HV           -> {5120}
      [] reg = REG_LV           -> {2560}
      [] reg = REG_I2           -> {512}
      [] reg = REG_I1           -> {768}
      [] reg = REG_I1CNT        -> {7}
      [] reg = REG_STATUS       -> {32768}

\* What SMBus_Read may return: n bytes read and the bytes.  A read fails
\* when fewer than regLength bytes come back; an absent slave never answers.
ReadOutcomes(reg) ==
    {[n |-> 0, data |-> <<>>]} \cup
    (IF slave = "present"
     THEN {[n |-> READ_LENGTH, data |-> <<v % 256, v \div 256>>] : v \in DeviceValues(reg)}
     ELSE {})

\* buffer after SMBus_Read returned o: the bytes read, from buffer[0] on.
SMBus_Read(buf, o) ==
    [i \in 0..2 |-> IF i < o.n THEN o.data[i + 1] ELSE buf[i]]

\* What SMBus_Write may return: TRUE for 0 (success).
WriteOutcomes == IF slave = "present" THEN {TRUE, FALSE} ELSE {FALSE}

NoAppend == [header |-> FALSE, rows |-> <<>>]

ProgramInit ==
    /\ pc = "open"
    /\ exitCode = <<>>
    /\ handle = "unopened"
    /\ \E g \in GarbageBytes : buffer = [i \in 0..2 |-> g]
    /\ MFRversion_raw = 0 /\ HWOCP_raw = 0 /\ HWOCP_A = 0
    /\ temperature1_raw = 0 /\ temperature1_C = 0
    /\ temperature2_raw = 0 /\ temperature2_C = 0
    /\ HVvoltage_raw = 0 /\ HVvoltage_V = 0
    /\ LVvoltage_raw = 0 /\ LVvoltage_V = 0
    /\ I2_current_raw = 0 /\ I2_current_A = 0
    /\ I1_current_raw = 0 /\ I1_current_A = 0
    /\ I1_CNT = 0 /\ DUT_Status = 0
    /\ first_timeA = 0
    /\ setupLog = <<>>
    /\ startupLog = <<>>
    /\ cycleLog = <<>>
    /\ cycles = 0
    /\ jumps = 0
    /\ csvLines = <<>>
    /\ csvAppend = NoAppend
    /\ stderrRecord = <<>>

HarnessOff ==
    /\ hpc = "off" /\ hAmps = 0 /\ hBytes = <<0, 0>>
    /\ hBuf = [i \in 0..2 |-> 0] /\ hRaw = 0 /\ hA32 = 0

Init == ProgramInit /\ slave = "present" /\ HarnessOff

\* ------------------------------------------------------------ open, configure
\* A failed open or configure that only prints, like the later error branches.
FatalExitSkipped ==
    /\ pc' = "mfrversion"
    /\ UNCHANGED <<exitCode, handle>>

\* The body of a failed open or configure: SMBus_Close, "Enter to exit...",
\* getchar, return -1.
FatalExit ==
    /\ pc' = "exited"
    /\ exitCode' = <<-1>>
    /\ handle' = "closed"

Open ==
    /\ pc = "open"
    /\ \/ /\ setupLog' = Append(setupLog, "open failed")
          /\ FatalExit
       \/ /\ setupLog' = Append(setupLog, "opened")
          /\ handle' = "open"
          /\ pc' = "configure"
          /\ UNCHANGED exitCode
    /\ UNCHANGED <<slave, buffer, vStartup, vSamples, vFile,
                   startupLog, cycleLog, vPorts, vHarness>>

Configure ==
    /\ pc = "configure"
    /\ \/ /\ setupLog' = Append(setupLog, "configure failed")
          /\ FatalExit
       \/ /\ setupLog' = Append(setupLog, "configured")
          /\ pc' = "mfrversion"
          /\ UNCHANGED <<exitCode, handle>>
    /\ UNCHANGED <<slave, buffer, vStartup, vSamples, vFile,
                   startupLog, cycleLog, vPorts, vHarness>>

\* -------------------------------------------------------------- startup
\* An error branch whose SMBus_Close / return -1 is live.
ProceedOrReturn(ok, next) == IF ok THEN next ELSE "exited"

\* Where main goes after a startup or polling transaction that returned
\* failure (ok = FALSE) or success: on to the next statement either way (the
\* SMBus_Close / return -1 of every error branch is commented out).
Proceed(ok, next) == next

ReadEntry(reg, o) ==
    [op |-> "read", reg |-> reg, payload |-> <<>>, ok |-> (o.n = READ_LENGTH)]

WriteEntry(reg, payload, ok) ==
    [op |-> "write", reg |-> reg, payload |-> payload, ok |-> ok]

ReadMFRversion ==
    /\ pc = "mfrversion"
    /\ \E o \in ReadOutcomes(REG_MFRVERSION) :
          /\ buffer' = SMBus_Read(buffer, o)
          /\ startupLog' = Append(startupLog, ReadEntry(REG_MFRVERSION, o))
          /\ pc' = Proceed(o.n = READ_LENGTH, "hwocp")
    /\ MFRversion_raw' = RawOf(buffer')
    /\ UNCHANGED <<HWOCP_raw, HWOCP_A, vSamples, vDevice, vFile, cycleLog,
                   vPorts, vHarness>>

ReadHWOCP ==
    /\ pc = "hwocp"
    /\ \E o \in ReadOutcomes(REG_HWOCP) :
          /\ buffer' = SMBus_Read(buffer, o)
          /\ startupLog' = Append(startupLog, ReadEntry(REG_HWOCP, o))
          /\ pc' = Proceed(o.n = READ_LENGTH, "writeprotect")
    /\ HWOCP_raw' = RawOf(buffer')
    /\ HWOCP_A' = Div32(HWOCP_raw')
    /\ UNCHANGED <<MFRversion_raw, vSamples, vDevice, vFile, cycleLog,
                   vPorts, vHarness>>

\* A write-protect payload that leaves buffer[1] as the last read left it.
WriteProtectPayloadStale(buf) == [buf EXCEPT ![0] = 16]

\* buffer[0] = 0x10; buffer[1] = 0;  sent with regLength = 2
WriteProtectPayload(buf) == [buf EXCEPT ![0] = REG_WRITEPROTECT, ![1] = 0]

WriteProtect ==
    /\ pc = "writeprotect"
    /\ buffer' = WriteProtectPayload(buffer)
    /\ \E ok \in WriteOutcomes :
          /\ startupLog' = Append(startupLog,
                 WriteEntry(REG_WRITEPROTECT, <<buffer'[0], buffer'[1]>>, ok))
          /\ pc' = Proceed(ok, "sethwocp")
    /\ UNCHANGED <<vStartup, vSamples, vDevice, vFile, cycleLog, vPorts, vHarness>>

WriteHWOCP ==
    /\ pc = "sethwocp"
    /\ HWOCP_A' = OCP_SETPOINT_A * 32
    /\ buffer' \in EncodeHWOCP(HWOCP_A')
    /\ \E ok \in WriteOutcomes :
          /\ startupLog' = Append(startupLog,
                 WriteEntry(REG_HWOCP, <<buffer'[0], buffer'[1], buffer'[2]>>, ok))
          /\ pc' = Proceed(ok, "rereadhwocp")
    /\ UNCHANGED <<MFRversion_raw, HWOCP_raw, vSamples, vDevice, vFile,
                   cycleLog, vPorts, vHarness>>

\* The first statement of the polling loop that follows the startup.
LoopEntry == "temperature1"

RereadHWOCP ==
    /\ pc = "rereadhwocp"
    /\ \E o \in ReadOutcomes(REG_HWOCP) :
          /\ buffer' = SMBus_Read(buffer, o)
          /\ startupLog' = Append(startupLog, ReadEntry(REG_HWOCP, o))
          /\ pc' = Proceed(o.n = READ_LENGTH, LoopEntry)
    /\ HWOCP_raw' = RawOf(buffer')
    /\ HWOCP_A' = Div32(HWOCP_raw')
    /\ UNCHANGED <<MFRversion_raw, vSamples, vDevice, vFile, cycleLog,
                   vPorts, vHarness>>

\* -------------------------------------------------------------- polling
\* An iteration that starts without clearing the buffer.
ZeroBufferSkipped(buf) == buf

\* buffer[0] = 0; buffer[1] = 0;  at the top of every iteration
ZeroBuffer(buf) == [buf EXCEPT ![0] = 0, ![1] = 0]

\* Step-by-step cycles the model follows before it stops exploring.
CycleBound == IF slave = "present" THEN MaxCycles ELSE MaxLongCycles

\* One register read of the loop (targetAddress[0] = reg): SMBus_Read into
\* buf; the error branch only prints.  log is the history of the cycle so far.
PollRead(reg, buf, log, next) ==
    /\ \E o \in ReadOutcomes(reg) :
          /\ buffer' = SMBus_Read(buf, o)
          /\ cycleLog' = Append(log, [reg |-> reg, n |-> o.n, data |-> o.data])
          /\ pc' = Proceed(o.n = READ_LENGTH, next)
    /\ csvAppend' = NoAppend
    /\ stderrRecord' = <<>>

ReadTemperature1 ==
    /\ pc = "temperature1"
    /\ cycles < CycleBound
    /\ PollRead(REG_TEMPERATURE1, ZeroBuffer(buffer), <<>>, "temperature2")
    /\ temperature1_raw' = RawOf(buffer')
    /\ temperature1_C' = TempOf(temperature1_raw')
    /\ UNCHANGED <<vStartup, vT2, vHV, vLV, vI2, vI1, vCS, vDevice, vFile,
                   startupLog, vHarness>>

ReadTemperature2 ==
    /\ pc = "temperature2"
    /\ PollRead(REG_TEMPERATURE2, buffer, cycleLog, "hv")
    /\ temperature2_raw' = RawOf(buffer')
    /\ temperature2_C' = TempOf(temperature2_raw')
    /\ UNCHANGED <<vStartup, vT1, vHV, vLV, vI2, vI1, vCS, vDevice, vFile,
                   startupLog, vHarness>>

ReadHV ==
    /\ pc = "hv"
    /\ PollRead(REG_HV, buffer, cycleLog, "lv")
    /\ HVvoltage_raw' = RawOf(buffer')
    /\ HVvoltage_V' = Div32(HVvoltage_raw')
    /\ UNCHANGED <<vStartup, vT1, vT2, vLV, vI2, vI1, vCS, vDevice, vFile,
                   startupLog, vHarness>>

ReadLV ==
    /\ pc = "lv"
    /\ PollRead(REG_LV, buffer, cycleLog, "i2")
    /\ LVvoltage_raw' = RawOf(buffer')
    /\ LVvoltage_V' = Div32(LVvoltage_raw')
    /\ UNCHANGED <<vStartup, vT1, vT2, vHV, vI2, vI1, vCS, vDevice, vFile,
                   startupLog, vHarness>>

ReadI2 ==
    /\ pc = "i2"
    /\ PollRead(REG_I2, buffer, cycleLog, "i1")
    /\ I2_current_raw' = RawOf(buffer')
    /\ I2_current_A' = Div32(I2_current_raw')
    /\ UNCHANGED <<vStartup, vT1, vT2, vHV, vLV, vI1, vCS, vDevice, vFile,
                   startupLog, vHarness>>

ReadI1 ==
    /\ pc = "i1"
    /\ PollRead(REG_I1, buffer, cycleLog, "i1cnt")
    /\ I1_current_raw' = RawOf(buffer')
    /\ I1_current_A' = Div32(I1_current_raw')
    /\ UNCHANGED <<vStartup, vT1, vT2, vHV, vLV, vI2, vCS, vDevice, vFile,
                   startupLog, vHarness>>

ReadI1CNT ==
    /\ pc = "i1cnt"
    /\ PollRead(REG_I1CNT, buffer, cycleLog, "status")
    /\ I1_CNT' = RawOf(buffer')
    /\ UNCHANGED <<vStartup, vT1, vT2, vHV, vLV, vI2, vI1, DUT_Status, vDevice,
                   vFile, startupLog, vHarness>>

ReadStatus ==
    /\ pc = "status"
    /\ PollRead(REG_STATUS, buffer, cycleLog, "log")
    /\ DUT_Status' = RawOf(buffer')
    /\ UNCHANGED <<vStartup, vT1, vT2, vHV, vLV, vI2, vI1, I1_CNT, vDevice,
                   vFile, startupLog, vHarness>>

\* The texts the two fprintf of the record can produce from the globals, in
\* the argument order HVvoltage_V, LVvoltage_V, I1_current_A, I2_current_A,
\* temperature1_C, temperature2_C, I1_CNT, DUT_Status.
RecordTexts ==
    { [HV_V |-> hv, LV_V |-> lv, I1_A |-> i1, I2_A |-> i2,
       Temp1_C |-> t1, Temp2_C |-> t2,
       I1_CNT |-> FmtDec(I1_CNT), DUT_Status |-> FmtHex(DUT_Status)] :
         hv \in Fmt2(HVvoltage_V), lv \in Fmt2(LVvoltage_V),
         i1 \in Fmt2(I1_current_A), i2 \in Fmt2(I2_current_A),
         t1 \in Fmt2(temperature1_C), t2 \in Fmt2(temperature2_C) }

\* if(first_timeA == 1) fprintf(fp, header)
HeaderDue(count) == count = 1

HeaderLine == [kind |-> "header", n |-> 1]
RowLines(k) == [kind |-> "row", n |-> k]

\* A loop that falls through to "Done! Exiting...", SMBus_Close, return 0.
LoopBackOnce == "exited"

\* while(1): after Sleep(500) the loop starts over
LoopBack == "temperature1"

\* The tail of an iteration: print the record, first_timeA++, fopen,
\* the header when due, the row, fclose, Sleep(500).
Log ==
    /\ pc = "log"
    /\ first_timeA' = Inc32(first_timeA)
    /\ \E row \in RecordTexts :
          /\ stderrRecord' = <<row>>
          /\ csvAppend' = [header |-> HeaderDue(first_timeA'), rows |-> <<row>>]
    /\ csvLines' = csvLines
                     \o (IF HeaderDue(first_timeA') THEN <<HeaderLine>> ELSE <<>>)
                     \o <<RowLines(1)>>
    /\ cycles' = cycles + 1
    /\ pc' = LoopBack
    /\ UNCHANGED <<buffer, vStartup, vSamples, vDevice, jumps,
                   startupLog, cycleLog, vHarness>>

\* Stretch lengths RepeatCycles summarises.
JumpSizes == {IntMax}

\* k consecutive iterations of the loop in each of which the eight reads
\* have the outcomes of the iteration just completed: the globals, buffer
\* and the printed record end as they are; first_timeA is incremented k
\* times and k rows are appended, with the header before the row of the
\* iteration (the j-th, j = 1 - first_timeA) whose increment makes
\* first_timeA equal to 1, if there is one.
RepeatCycles ==
    /\ pc = "temperature1"
    /\ cycles >= 1
    /\ jumps < MaxJumps
    /\ \E k \in JumpSizes :
          LET j == 1 - first_timeA
              hit == first_timeA <= 0 /\ first_timeA >= 1 - k
          IN  /\ first_timeA' = Add32(first_timeA, k)
              /\ csvLines' = csvLines \o
                    (IF ~hit THEN <<RowLines(k)>>
                     ELSE (IF j > 1 THEN <<RowLines(j - 1)>> ELSE <<>>)
                          \o <<HeaderLine, RowLines(k - j + 1)>>)
              /\ csvAppend' = [csvAppend EXCEPT !.header = HeaderDue(first_timeA')]
    /\ jumps' = jumps + 1
    /\ UNCHANGED <<pc, buffer, vStartup, vSamples, vDevice,
                   cycles, startupLog, cycleLog, stderrRecord, vHarness>>

\* ---------------------------------------------------- conversion harness
\* The setpoint statements (HWOCP_A = a; buffer[0..2] = ...) for an integer
\* amp value a in place of 600.
HEncode ==
    /\ hpc = "encode"
    /\ hBuf' \in EncodeHWOCP(hAmps * 32)
    /\ hpc' = "readback"
    /\ UNCHANGED <<hAmps, hBytes, hRaw, hA32>>

\* A successful re-read of the register that returns the two bytes written
\* (buffer[1], buffer[2] of the write), followed by the OCP decode.
HReadBack ==
    /\ hpc = "readback"
    /\ LET b == SMBus_Read(hBuf, [n |-> READ_LENGTH, data |-> <<hBuf[1], hBuf[2]>>])
       IN  /\ hBuf' = b
           /\ hBytes' = <<b[0], b[1]>>
           /\ hRaw' = RawOf(b)
           /\ hA32' = Div32(RawOf(b))
    /\ hpc' = "roundtrip done"
    /\ UNCHANGED hAmps

\* A successful read of a voltage or current register that returns hBytes
\* (low, high), followed by its decode.
HDecode ==
    /\ hpc = "decode"
    /\ LET b == SMBus_Read(hBuf, [n |-> READ_LENGTH, data |-> hBytes])
       IN  /\ hBuf' = b
           /\ hRaw' = RawOf(b)
           /\ hA32' = Div32(RawOf(b))
    /\ hpc' = "decode done"
    /\ UNCHANGED <<hAmps, hBytes>>

ProgramIdle ==
    UNCHANGED <<pc, buffer, vStartup, vSamples, vDevice, vFile,
                startupLog, cycleLog, vPorts>>

CodecInit ==
    /\ ProgramInit
    /\ slave = "present"
    /\ hBuf = buffer
    /\ hRaw = 0 /\ hA32 = 0
    /\ \/ hpc = "encode" /\ hAmps \in 0..MaxAmps /\ hBytes = <<0, 0>>
       \/ hpc = "decode" /\ hAmps = 0 /\ hBytes \in Byte \X Byte

CodecNext ==
    \/ HEncode /\ ProgramIdle
    \/ HReadBack /\ ProgramIdle
    \/ HDecode /\ ProgramIdle

\* ------------------------------------------------------- specifications
Next ==
    \/ Open \/ Configure
    \/ ReadMFRversion \/ ReadHWOCP \/ WriteProtect \/ WriteHWOCP \/ RereadHWOCP
    \/ ReadTemperature1 \/ ReadTemperature2 \/ ReadHV \/ ReadLV
    \/ ReadI2 \/ ReadI1 \/ ReadI1CNT \/ ReadStatus
    \/ Log

\* The program with the slave on the bus.
Spec == Init /\ [][Next]_vars

\* The program with no slave answering, followed over long stretches.
LongInit == ProgramInit /\ slave = "absent" /\ HarnessOff
LongNext == Next \/ RepeatCycles
LongRunSpec == LongInit /\ [][LongNext]_vars

\* The byte conversions on their whole input ranges.
CodecSpec == CodecInit /\ [][CodecNext]_vars

\* ----------------------------------------------------------- properties
PollingPcs == {"temperature1", "temperature2", "hv", "lv", "i2", "i1",
               "i1cnt", "status", "log"}

\* The value of two bytes (low, high) as an unsigned 16-bit number.
U16(d) == d[2] * 256 + d[1]

\* The same bytes read as a 16-bit two's-complement number.
S16(d) == IF U16(d) >= 32768 THEN U16(d) - 65536 ELSE U16(d)

AllOk(log) == \A i \in 1..Len(log) : log[i].n = 2

\* a polling cycle has just been completed and logged
CycleLogged == pc = "temperature1" /\ cycles >= 1

\* C1: when SMBus_Open fails, or succeeds and SMBus_Configure fails, main
\* returns -1 and no register read, register write or CSV append was issued;
\* main returns in no other case.
FatalSetup == setupLog \in {<<"open failed">>, <<"opened", "configure failed">>}
C1_FatalSetupExits ==
    /\ FatalSetup =>
          /\ pc = "exited" /\ exitCode = <<-1>>
          /\ startupLog = <<>> /\ cycleLog = <<>> /\ cycles = 0
          /\ csvLines = <<>> /\ csvAppend = NoAppend /\ first_timeA = 0
    /\ (pc = "exited" \/ exitCode # <<>>) => FatalSetup
C1_Witness ==
    /\ setupLog = <<"opened", "configure failed">>
    /\ pc = "exited" /\ exitCode = <<-1>>

\* C2: in every polling cycle, whichever reads fail, the reads issued so far
\* are the registers 0x8D, 0x8E, 0x88, 0x8B, 0x8C, 0x90, 0xCD, 0x79 in that
\* order, each once; the record is logged only after all eight; and after
\* the log the program stands at the first read of the next cycle.
PollOrder == <<141, 142, 136, 139, 140, 144, 205, 121>>
PcAfterRead == <<"temperature2", "hv", "lv", "i2", "i1", "i1cnt", "status", "log">>
C2_EightReadsInOrder ==
    /\ Len(cycleLog) <= 8
    /\ \A i \in 1..Len(cycleLog) : cycleLog[i].reg = PollOrder[i]
    /\ cycleLog # <<>> =>
          \/ pc = PcAfterRead[Len(cycleLog)]
          \/ Len(cycleLog) = 8 /\ pc = "temperature1" /\ cycles >= 1
    /\ pc = "log" => Len(cycleLog) = 8
    /\ CycleLogged => Len(cycleLog) = 8
    /\ (CycleLogged /\ cycles < CycleBound) => ENABLED ReadTemperature1
C2_Witness ==
    /\ CycleLogged /\ cycles = 1
    /\ Len(cycleLog) = 8
    /\ \A i \in 1..8 : cycleLog[i].n = 0
    /\ ENABLED ReadTemperature1

\* C3: whatever the number of iterations, outputA.csv receives the header
\* exactly once, as the first line appended, and never in a step that
\* appends no data row.
HeaderCount == Cardinality({i \in 1..Len(csvLines) : csvLines[i].kind = "header"})
C3_HeaderOnce ==
    /\ HeaderCount <= 1
    /\ csvLines # <<>> => csvLines[1].kind = "header"
    /\ csvAppend.header => Len(csvAppend.rows) = 1

\* C4 (as claimed): a voltage or current register read that delivers the
\* bytes (low, high) decodes to raw / 32 with raw = high * 256 + low unsigned.
C4_DecodeUnsigned ==
    hpc = "decode done" => hA32 = U16(hBytes)
\* C4 (amended): it decodes to raw / 32 for raw <= 32767 and to
\* (raw - 65536) / 32 for raw >= 32768; raw 3200 prints as 100.00.
C4_DecodeSigned ==
    hpc = "decode done" =>
        /\ hA32 = IF hBytes[2] >= 128 THEN U16(hBytes) - 65536 ELSE U16(hBytes)
        /\ U16(hBytes) = 3200 => Fmt2(hA32) = {10000}
C4_Witness ==
    /\ hpc = "decode done"
    /\ hBytes = <<0, 148>>
    /\ hA32 = -27648

\* C5: for every integer amp value a in 0..MaxAmps, encoding a and decoding
\* the two bytes written gives a back; 600 encodes to low 0x00, high 0x4B.
C5_RoundTrip ==
    hpc = "roundtrip done" =>
        /\ hA32 = hAmps * 32
        /\ hAmps = 600 => hBytes = <<0, 75>>

\* C6: the startup issues, in this order and whichever of them fail, the
\* reads of 0x9B and 0xEA, the write of (0x10, 0x00), the write of
\* (0xEA, low, high) and the read of 0xEA; nothing else; and once the fifth
\* is issued the program is in the polling loop.
StartupShape(i, e) ==
    CASE i = 1 -> e.op = "read" /\ e.reg = 155
      [] i = 2 -> e.op = "read" /\ e.reg = 234
      [] i = 3 -> e.op = "write" /\ e.payload = <<16, 0>>
      [] i = 4 -> /\ e.op = "write" /\ Len(e.payload) = 3
                  /\ e.payload[1] = 234 /\ e.payload[2] \in {0, 255}
                  /\ e.payload[3] = 75
      [] i = 5 -> e.op = "read" /\ e.reg = 234
StartupPcs == <<"mfrversion", "hwocp", "writeprotect", "sethwocp", "rereadhwocp">>
C6_StartupOrder ==
    /\ Len(startupLog) <= 5
    /\ \A i \in 1..Len(startupLog) : StartupShape(i, startupLog[i])
    /\ Len(startupLog) < 5 =>
          pc \in {"open", "configure", "exited", StartupPcs[Len(startupLog) + 1]}
    /\ Len(startupLog) = 5 <=> pc \in PollingPcs
C6_Witness ==
    /\ pc = "temperature1" /\ cycles = 0
    /\ Len(startupLog) = 5
    /\ \A i \in 1..5 : ~startupLog[i].ok

\* C7: the record printed and appended by an iteration is determined by the
\* outcomes of that iteration's eight reads alone: it is the record computed
\* from a cleared buffer and those outcomes, whatever happened before.
RECURSIVE BytesAfter(_, _)
BytesAfter(log, i) ==
    IF i = 0 THEN <<0, 0>>
    ELSE IF log[i].n = 2 THEN log[i].data ELSE BytesAfter(log, i - 1)
RecordFrom(log, row) ==
    /\ row.Temp1_C \in Fmt2(S16(BytesAfter(log, 1)) - 1280)
    /\ row.Temp2_C \in Fmt2(S16(BytesAfter(log, 2)) - 1280)
    /\ row.HV_V \in Fmt2(S16(BytesAfter(log, 3)))
    /\ row.LV_V \in Fmt2(S16(BytesAfter(log, 4)))
    /\ row.I2_A \in Fmt2(S16(BytesAfter(log, 5)))
    /\ row.I1_A \in Fmt2(S16(BytesAfter(log, 6)))
    /\ row.I1_CNT = S16(BytesAfter(log, 7))
    /\ row.DUT_Status = FmtHex(S16(BytesAfter(log, 8)))
C7_RecordFromThisCycle ==
    CycleLogged =>
        /\ Len(cycleLog) = 8
        /\ Len(csvAppend.rows) = 1
        /\ stderrRecord = csvAppend.rows
        /\ RecordFrom(cycleLog, csvAppend.rows[1])
C7_Witness ==
    /\ CycleLogged /\ cycles = 2
    /\ startupLog[5].ok
    /\ cycleLog[1].n = 0 /\ cycleLog[2].n = 0 /\ cycleLog[3].n = 2
    /\ csvAppend.rows[1].Temp1_C = -4000
    /\ csvAppend.rows[1].HV_V = 16000

\* C8: once the first polling read has been issued the program stays in the
\* polling loop: it never returns, never closes, re-opens or re-configures
\* the device and issues no further startup transaction, so the setpoint
\* was written exactly once.
PollingStarted == cycleLog # <<>>
SetpointWrites ==
    Cardinality({i \in 1..Len(startupLog) :
                    startupLog[i].op = "write" /\ startupLog[i].reg = 234})
C8_PollingAbsorbing ==
    /\ [](PollingStarted => SetpointWrites = 1)
    /\ [][PollingStarted =>
            /\ PollingStarted'
            /\ pc' \in PollingPcs
            /\ exitCode' = <<>> /\ handle' = "open"
            /\ setupLog' = setupLog
            /\ startupLog' = startupLog]_vars
C8_Witness ==
    /\ pc = "status" /\ cycles = 1
    /\ Len(csvLines) = 2

\* C9: in a cycle whose eight reads all succeed one row is appended, with
\* HV, LV, I1, I2 = raw / 32, the temperatures = raw / 32 - 40 and the count
\* and status the unscaled values, each raw the unsigned 16-bit value read
\* in that cycle from 0x88, 0x8B, 0x90, 0x8C, 0x8D, 0x8E, 0xCD, 0x79.
C9_RowFromUnsignedRaws ==
    (CycleLogged /\ Len(cycleLog) = 8 /\ AllOk(cycleLog)) =>
        /\ Len(csvAppend.rows) = 1
        /\ LET row == csvAppend.rows[1] IN
              /\ row.HV_V \in Fmt2(U16(cycleLog[3].data))
              /\ row.LV_V \in Fmt2(U16(cycleLog[4].data))
              /\ row.I1_A \in Fmt2(U16(cycleLog[6].data))
              /\ row.I2_A \in Fmt2(U16(cycleLog[5].data))
              /\ row.Temp1_C \in Fmt2(U16(cycleLog[1].data) - 1280)
              /\ row.Temp2_C \in Fmt2(U16(cycleLog[2].data) - 1280)
              /\ row.I1_CNT = U16(cycleLog[7].data)
              /\ row.DUT_Status = HexDigits(U16(cycleLog[8].data))

\* C10: a failed read decodes the bytes left in buffer[0..1]: a failed
\* temperature1 read gives raw 0 (-40.00 C), a failed later read of a cycle
\* repeats the raw value of the nearest earlier successful read of the cycle
\* (0 if none), and a failed setpoint re-read decodes (0xEA, low byte) of
\* the setpoint write payload.
RawVar(i) ==
    CASE i = 1 -> temperature1_raw [] i = 2 -> temperature2_raw
      [] i = 3 -> HVvoltage_raw    [] i = 4 -> LVvoltage_raw
      [] i = 5 -> I2_current_raw   [] i = 6 -> I1_current_raw
      [] i = 7 -> I1_CNT           [] i = 8 -> DUT_Status
EarlierOk(i) == {j \in 1..(i - 1) : cycleLog[j].n = 2}
NearestOk(i) == CHOOSE j \in EarlierOk(i) : \A k \in EarlierOk(i) : k <= j
C10_FailedReadDecodesStaleBytes ==
    /\ \A i \in 1..Len(cycleLog) :
          cycleLog[i].n = 0 =>
             RawVar(i) = IF EarlierOk(i) = {} THEN 0
                         ELSE S16(cycleLog[NearestOk(i)].data)
    /\ (cycleLog # <<>> /\ cycleLog[1].n = 0) =>
          /\ temperature1_raw = 0
          /\ Fmt2(temperature1_C) = {-4000}
    /\ (Len(startupLog) = 5 /\ ~startupLog[5].ok) =>
          /\ HWOCP_raw = S16(<<234, startupLog[4].payload[2]>>)
          /\ HWOCP_raw \in {234, -22}
          /\ HWOCP_A = HWOCP_raw
C10_Witness ==
    /\ pc = "log" /\ cycles = 1
    /\ ~startupLog[5].ok /\ HWOCP_raw = -22
    /\ cycleLog[1].n = 0 /\ cycleLog[2].n = 2 /\ cycleLog[3].n = 0
    /\ HVvoltage_raw = 1280
    /\ cycleLog[8].n = 0 /\ cycleLog[7].n = 2 /\ DUT_Status = 7

====
